---- MODULE Spec2Model ----
(***************************************************************************)
(* A model of nix's sched module (src/src/sched.rs): CloneFlags, CpuSet,   *)
(* sched_setaffinity, clone (with its trampoline and vec_to_stack),        *)
(* unshare and setns.                                                      *)
(*                                                                         *)
(* Representations.                                                        *)
(*  - A c_int that is used as a bit mask (flag bits, the exit signal) is   *)
(*    the set of the bit positions 0..31 that are 1 in its 32-bit pattern: *)
(*    | is \cup, & is \cap, ! is the complement in 0..31.                  *)
(*  - A c_int that is used as a number (a primitive's return value, a pid, *)
(*    the trampoline's return value) is an integer in -2^31 .. 2^31-1.     *)
(*  - An isize is [hi, lo], standing for hi * 2^31 + lo with               *)
(*    0 <= lo < 2^31, so that 64-bit values stay within 32-bit integers.   *)
(*  - A machine word of cpu_set_t is the set of its bit offsets that are 1.*)
(*  - usize_size is size_of::<usize>() of the build target (4 or 8).       *)
(***************************************************************************)
EXTENDS Integers, FiniteSets, Sequences, TLC

VARIABLES
    usize_size,   \* size_of::<usize>() of the target, fixed at start
    cpu_set,      \* CpuSet.cpu_set: word index -> set of bit offsets
    lastOp,       \* history: field -> last successful set/unset ("none" if neither)
    cpuCall,      \* the last CpuSet method call: op, field, result, words touched, set before
    raw,          \* CloneFlags round trip: the raw c_int handed to from_bits
    made,         \* CloneFlags round trip: from_bits' answer, then bits() of it
    fpc,          \* CloneFlags round trip: position
    pc,           \* the caller's position in the current call of this module
    call,         \* the current call: function name and arguments
    combined,     \* clone: the local `combined`
    sp,           \* clone: the pointer vec_to_stack returned
    stackAlloc,   \* clone: the stack Vec's allocation: owned / forgotten / freed
    cbBox,        \* clone: the boxed closure: state and heap address
    cbCalls,      \* closure invocations, per context (parent, child)
    prims,        \* the OS primitive calls this call has issued, in order
    res,          \* the last primitive's raw outcome: return value and errno
    result,       \* what the call returned to its caller
    child         \* the process the clone primitive created, if any

cpuVars  == <<cpu_set, lastOp, cpuCall>>
flagVars == <<raw, made, fpc>>
sysVars  == <<pc, call, combined, sp, stackAlloc, cbBox, cbCalls, prims, res, result, child>>
vars     == <<usize_size, cpu_set, lastOp, cpuCall, raw, made, fpc, pc, call, combined,
              sp, stackAlloc, cbBox, cbCalls, prims, res, result, child>>

(***************************************************************************)
(* Bounds of the model.                                                    *)
(***************************************************************************)
\* CpuSet fields 0..MaxLowField are tried besides the word and capacity edges.
MaxLowField == 0
\* CpuSet fields capacity..capacity+MaxOverField are tried beyond the capacity.
MaxOverField == 1
\* Raw integers are built from the flag bits 8..8+MaxFlagBit besides the edges.
MaxFlagBit == 2
\* Stack buffers start at addresses StackBase..StackBase+MaxBaseOff.
MaxBaseOff == 9
\* Stack buffers are 0..MaxStackLen bytes long.
MaxStackLen == 17

(***************************************************************************)
(* The target.                                                             *)
(***************************************************************************)
UsizeSizes == {4, 8}

\* Result<T>
Ok(v)  == [ok |-> TRUE, val |-> v]
Err(e) == [ok |-> FALSE, err |-> e]
\* Option<T>
None    == [some |-> FALSE]
Some(v) == [some |-> TRUE, val |-> v]

unwrap_or(o, d) == IF o.some THEN o.val ELSE d

\* Ok(()) and Err(Error::Sys(Errno::EINVAL))
OkUnit == Ok("unit")
ErrEINVAL == Err("EINVAL")

(***************************************************************************)
(* CloneFlags (libc_bitflags!): each constant is libc's value of that name.*)
(***************************************************************************)
CIntBits == 0..31

CLONE_VM             == {8}
CLONE_FS             == {9}
CLONE_FILES          == {10}
CLONE_SIGHAND        == {11}
CLONE_PTRACE         == {13}
CLONE_VFORK          == {14}
CLONE_PARENT         == {15}
CLONE_THREAD         == {16}
CLONE_NEWNS          == {17}
CLONE_SYSVSEM        == {18}
CLONE_SETTLS         == {19}
CLONE_PARENT_SETTID  == {20}
CLONE_CHILD_CLEARTID == {21}
CLONE_DETACHED       == {22}
CLONE_UNTRACED       == {23}
CLONE_CHILD_SETTID   == {24}
CLONE_NEWCGROUP      == {25}
CLONE_NEWUTS         == {26}
CLONE_NEWIPC         == {27}
CLONE_NEWUSER        == {28}
CLONE_NEWPID         == {29}
CLONE_NEWNET         == {30}
CLONE_IO             == {31}

\* The constants the struct declares, in the order of the declaration.
DeclaredFlags ==
    << CLONE_VM, CLONE_FS, CLONE_FILES, CLONE_SIGHAND, CLONE_PTRACE, CLONE_VFORK,
       CLONE_PARENT, CLONE_THREAD, CLONE_NEWNS, CLONE_SYSVSEM, CLONE_SETTLS,
       CLONE_PARENT_SETTID, CLONE_CHILD_CLEARTID, CLONE_DETACHED, CLONE_UNTRACED,
       CLONE_CHILD_SETTID, CLONE_NEWCGROUP, CLONE_NEWUTS, CLONE_NEWIPC,
       CLONE_NEWUSER, CLONE_NEWPID, CLONE_NEWNET, CLONE_IO >>

\* A slip in the declaration: the last constant (CLONE_IO) is left out.
CloneFlags_all_short == UNION {DeclaredFlags[i] : i \in 1..(Len(DeclaredFlags) - 1)}

\* CloneFlags::all().bits(): the OR of the declared constants.
CloneFlags_all == UNION {DeclaredFlags[i] : i \in 1..Len(DeclaredFlags)}

\* CloneFlags::from_bits(bits): Some when no bit outside all() is set.
from_bits(x) ==
    IF x \cap (CIntBits \ CloneFlags_all) = {}
    THEN Some([bits |-> x])
    ELSE None

\* CloneFlags::bits(&self)
bits(f) == f.bits

\* The flag sets the calls of the model are made with.
FlagSamples ==
    { [bits |-> x] : x \in { {}, CLONE_VM, CLONE_VM \cup CLONE_FS,
                             CLONE_NEWNS \cup CLONE_IO } }

(***************************************************************************)
(* CpuSet                                                                  *)
(***************************************************************************)
\* mem::size_of::<libc::cpu_set_t>(): 1024 bits on every Linux target.
CpuSetBytes == 128

\* libc: 8 * size_of_val(&cpuset.bits[0]); the words are u64 or u32 with the target.
size_in_bits(w) == 8 * w
\* libc: the number of words of cpu_set_t.bits
NumWords(w) == CpuSetBytes \div w

\* A panic of the caller's thread (an array index out of bounds in libc).
Panic == [ok |-> FALSE, err |-> "panic"]

\* The outcome of a method: what it returns, the set it leaves, the words it indexed.
Outcome(r, cs, t) == [ret |-> r, self |-> cs, touched |-> t]

\* libc::CPU_ISSET(cpu, &cpuset): 0 != cpuset.bits[idx] & (1 << offset)
CPU_ISSET(w, cpu, cs) ==
    LET idx    == cpu \div size_in_bits(w)
        offset == cpu % size_in_bits(w)
    IN  IF idx \in DOMAIN cs
        THEN Outcome(Ok(offset \in cs[idx]), cs, {idx})
        ELSE Outcome(Panic, cs, {idx})

\* libc::CPU_SET(cpu, &mut cpuset): cpuset.bits[idx] |= 1 << offset
CPU_SET(w, cpu, cs) ==
    LET idx    == cpu \div size_in_bits(w)
        offset == cpu % size_in_bits(w)
    IN  IF idx \in DOMAIN cs
        THEN Outcome(OkUnit, [cs EXCEPT ![idx] = @ \cup {offset}], {idx})
        ELSE Outcome(Panic, cs, {idx})

\* libc::CPU_CLR(cpu, &mut cpuset): cpuset.bits[idx] &= !(1 << offset)
CPU_CLR(w, cpu, cs) ==
    LET idx    == cpu \div size_in_bits(w)
        offset == cpu % size_in_bits(w)
    IN  IF idx \in DOMAIN cs
        THEN Outcome(OkUnit, [cs EXCEPT ![idx] = @ \ {offset}], {idx})
        ELSE Outcome(Panic, cs, {idx})

\* CpuSet::new(): mem::zeroed()
CpuSet_new(w) == [idx \in 0..(NumWords(w) - 1) |-> {}]

\* A slip in the bound: > for >=, so that the first index past the end passes.
FieldOutOfRange_off_by_one(field) == field > 8 * CpuSetBytes

\* The check the three methods share: field >= 8 * size_of::<cpu_set_t>()
FieldOutOfRange(field) == field >= 8 * CpuSetBytes

\* CpuSet::is_set(&self, field)
is_set(w, cs, field) ==
    IF FieldOutOfRange(field)
    THEN Outcome(ErrEINVAL, cs, {})
    ELSE CPU_ISSET(w, field, cs)

\* CpuSet::set(&mut self, field)
set(w, cs, field) ==
    IF FieldOutOfRange(field)
    THEN Outcome(ErrEINVAL, cs, {})
    ELSE CPU_SET(w, field, cs)

\* A copy-and-paste slip: unset sets the bit as set does.
unset_as_set(w, cs, field) == set(w, cs, field)

\* CpuSet::unset(&mut self, field)
unset(w, cs, field) ==
    IF FieldOutOfRange(field)
    THEN Outcome(ErrEINVAL, cs, {})
    ELSE CPU_CLR(w, field, cs)

\* The fields the methods are called with: the low ones, both sides of the first
\* word's end, both sides of the capacity.
Fields(w) ==
    (0..MaxLowField)
    \cup {size_in_bits(w) - 1, size_in_bits(w), 8 * CpuSetBytes - 1}
    \cup ((8 * CpuSetBytes)..(8 * CpuSetBytes + MaxOverField))

InRange(w) == {f \in Fields(w) : f < 8 * CpuSetBytes}

\* The history of a call: a successful set or unset becomes the field's last one.
Record(hist, op, field, out) ==
    IF out.ret.ok /\ op # "is_set" /\ field \in DOMAIN hist
    THEN [hist EXCEPT ![field] = op]
    ELSE hist

CpuCall(op, field, out) ==
    /\ cpu_set' = out.self
    /\ lastOp' = Record(lastOp, op, field, out)
    /\ cpuCall' = [op |-> op, field |-> field, ret |-> out.ret,
                   touched |-> out.touched, before |-> cpu_set]
    /\ UNCHANGED <<usize_size, flagVars, sysVars>>

IsSet == \E field \in Fields(usize_size) :
    CpuCall("is_set", field, is_set(usize_size, cpu_set, field))

Set == \E field \in Fields(usize_size) :
    CpuCall("set", field, set(usize_size, cpu_set, field))

Unset == \E field \in Fields(usize_size) :
    CpuCall("unset", field, unset(usize_size, cpu_set, field))

InitCpu ==
    /\ cpu_set = CpuSet_new(usize_size)
    /\ lastOp = [f \in InRange(usize_size) |-> "none"]
    /\ cpuCall = [op |-> "new", field |-> 0, ret |-> OkUnit,
                  touched |-> {}, before |-> CpuSet_new(usize_size)]

(***************************************************************************)
(* CloneFlags: from a raw integer and back.                                *)
(***************************************************************************)
\* The bit positions raw integers are built from: two of the signal mask's, the
\* gap between CLONE_SIGHAND and CLONE_PTRACE, the sign bit, and the low flags.
RawBits == {0, 4, 12, 31} \cup (8..(8 + MaxFlagBit))

FromBits ==
    /\ fpc = "raw"
    /\ made' = from_bits(raw)
    /\ fpc' = "made"
    /\ UNCHANGED <<usize_size, raw, cpuVars, sysVars>>

Bits ==
    /\ fpc = "made"
    /\ made.some
    /\ made' = Some(bits(made.val))
    /\ fpc' = "back"
    /\ UNCHANGED <<usize_size, raw, cpuVars, sysVars>>

InitFlags ==
    /\ raw \in SUBSET RawBits
    /\ made = None
    /\ fpc = "raw"

IdleFlags ==
    /\ raw = {}
    /\ made = None
    /\ fpc = "raw"


(***************************************************************************)
(* The OS primitives and the error translation.                            *)
(***************************************************************************)
Errnos == {"EINVAL", "EPERM", "ENOMEM"}

\* What a primitive that reports a status can do: 0, or -1 with errno set.
StatusOutcomes ==
    {[ret |-> 0, errno |-> "unchanged"]} \cup {[ret |-> -1, errno |-> e] : e \in Errnos}

\* What the process-creation primitive can do: the child's pid, or -1 with errno set.
CloneOutcomes ==
    {[ret |-> p, errno |-> "unchanged"] : p \in {2, 4242}}
    \cup {[ret |-> -1, errno |-> e] : e \in Errnos}

\* Errno::result(value): the sentinel -1 becomes Err(Sys(Errno::last())).
Errno_result(r) == IF r.ret = -1 THEN Err(r.errno) ELSE Ok(r.ret)

\* Pid::from_raw(pid)
Pid_from_raw(p) == [pid |-> p]

\* Result::map(drop)
map_drop(r) == IF r.ok THEN OkUnit ELSE r

\* Result::map(Pid::from_raw)
map_Pid_from_raw(r) == IF r.ok THEN Ok(Pid_from_raw(r.val)) ELSE r

(***************************************************************************)
(* clone                                                                   *)
(***************************************************************************)
\* isize values: [hi, lo] is hi * 2^31 + lo.  On a 32-bit target an isize has
\* 32 bits, so hi is 0 or -1.
Isize(h, l) == [hi |-> h, lo |-> l]

\* The results within the signed 32-bit range, and those an 8-byte isize adds.
IsizeSamples32 ==
    {Isize(0, 0), Isize(0, 5050), Isize(0, 2147483647), Isize(-1, 2147483647),
     Isize(-1, 0)}

IsizeSamplesWide ==
    {Isize(1, 0), Isize(1, 2147483647), Isize(2, 7), Isize(-2, 5), Isize(-3, 0)}

IsizeSamples(w) == IF w = 8 THEN IsizeSamples32 \cup IsizeSamplesWide ELSE IsizeSamples32

\* A cast that saturates at the ends of the 32-bit range instead of wrapping.
as_c_int_saturating(r) ==
    IF r.hi >= 1 THEN 2147483647
    ELSE IF r.hi <= -2 THEN (0 - 2147483647) - 1
    ELSE IF r.hi = 0 THEN r.lo
    ELSE (r.lo - 2147483647) - 1

\* `cb() as c_int`: the low 32 bits, read as a signed integer.
as_c_int(r) ==
    IF r.hi % 2 = 1
    THEN (r.lo - 2147483647) - 1
    ELSE r.lo

\* A trampoline that runs the closure a second time for its result.
callback_twice(cb) == [calls |-> 2, ret |-> as_c_int(cb)]

\* callback(data): takes the closure back from the raw pointer and calls it.
callback(cb) == [calls |-> 1, ret |-> as_c_int(cb)]

\* Aligning the top upwards, and a Vec that is dropped when the function returns.
vec_to_stack_up(w, stack) ==
    LET base_ptr == stack.b + stack.n
    IN  [ptr |-> base_ptr + ((w - (base_ptr % w)) % w), alloc |-> "forgotten"]

vec_to_stack_dropped(w, stack) ==
    LET base_ptr == stack.b + stack.n
    IN  [ptr |-> base_ptr - (base_ptr % w), alloc |-> "freed"]

\* vec_to_stack(stack): the pointer, and what became of the Vec's allocation.
\* When the remainder exceeds the length the second offset ends below the buffer,
\* which `offset` does not allow; the builds compute the address all the same, and
\* it is what clone hands to the primitive.
vec_to_stack(w, stack) ==
    LET stack_len == stack.n
        top_ptr   == stack.b
        base_ptr  == top_ptr + stack_len
    IN  [ptr |-> base_ptr - (base_ptr % w), alloc |-> "forgotten"]

\* A `combined` that leaves the exit signal out.
clone_combined_flags_only(flags, signal) == bits(flags)

\* let combined = flags.bits() | signal.unwrap_or(0)
clone_combined(flags, signal) == bits(flags) \cup unwrap_or(signal, {})

\* The arguments of libc::clone, as clone passes them.
clone_args(stack_ptr, comb, data) ==
    [name |-> "clone", fn |-> "callback", stack |-> stack_ptr, flags |-> comb,
     arg |-> data]

\* A result that wraps the raw value without looking for the sentinel.
clone_result_unchecked(r) == Ok(Pid_from_raw(r.ret))

\* Errno::result(res).map(Pid::from_raw)
clone_result(r) == map_Pid_from_raw(Errno_result(r))

\* The exit signals the calls are made with: none, SIGCHLD (17), SIGUSR1 (10).
SomeSIGCHLD == Some({0, 4})
SomeSIGUSR1 == Some({1, 3})
SignalSamples == {None, SomeSIGCHLD, SomeSIGUSR1}

\* The state of a caller that is in no call.
NoCall   == [fn |-> "none"]
NoBox    == [state |-> "none"]
NoCalls  == [parent |-> 0, child |-> 0]
NoRes    == [ret |-> 0, errno |-> "unchanged"]
NoChild  == [state |-> "none"]

\* The file descriptors and the pids the calls are made with.
FdSamples  == {-1, 3}
PidSamples == {Pid_from_raw(0), Pid_from_raw(4242)}

\* The heap addresses Box::new can return.
BoxAddrs == {"box1", "box2"}

ClosureOwned == [state |-> "closure"]

CloneCall(cb, stack, flags, signal) ==
    /\ pc = "idle"
    /\ call' = [fn |-> "clone", cb |-> cb, stack |-> stack, flags |-> flags,
                signal |-> signal]
    /\ combined' = clone_combined(flags, signal)
    /\ stackAlloc' = "owned"
    /\ cbBox' = ClosureOwned
    /\ pc' = "vec_to_stack"
    /\ UNCHANGED <<usize_size, cpuVars, flagVars, sp, cbCalls, prims, res, result, child>>

CloneVecToStack ==
    /\ pc = "vec_to_stack"
    /\ LET v == vec_to_stack(usize_size, call.stack)
       IN  /\ sp' = v.ptr
           /\ stackAlloc' = v.alloc
    /\ pc' = "into_raw"
    /\ UNCHANGED <<usize_size, cpuVars, flagVars, call, combined, cbBox, cbCalls, prims,
                   res, result, child>>

CloneBoxIntoRaw ==
    /\ pc = "into_raw"
    /\ \E a \in BoxAddrs : cbBox' = [state |-> "raw", addr |-> a, cb |-> call.cb]
    /\ pc' = "primitive"
    /\ UNCHANGED <<usize_size, cpuVars, flagVars, call, combined, sp, stackAlloc, cbCalls,
                   prims, res, result, child>>

ClonePrimitive ==
    /\ pc = "primitive"
    /\ prims' = Append(prims, clone_args(sp, combined, cbBox.addr))
    /\ \E o \in CloneOutcomes :
        /\ res' = o
        /\ child' = IF o.ret = -1
                    THEN child
                    ELSE [state |-> "running", pid |-> o.ret, fn |-> "callback",
                          arg |-> cbBox.addr]
    /\ pc' = "result"
    /\ UNCHANGED <<usize_size, cpuVars, flagVars, call, combined, sp, stackAlloc, cbBox,
                   cbCalls, result>>

CloneResult ==
    /\ pc = "result"
    /\ result' = clone_result(res)
    /\ pc' = "done"
    /\ UNCHANGED <<usize_size, cpuVars, flagVars, call, combined, sp, stackAlloc, cbBox,
                   cbCalls, prims, res, child>>

\* The child: the primitive enters the trampoline with the user data it was given.
Trampoline ==
    /\ child.state = "running"
    /\ child.fn = "callback"
    /\ cbBox.state = "raw"
    /\ child.arg = cbBox.addr
    /\ LET c == callback(cbBox.cb)
       IN  /\ cbCalls' = [cbCalls EXCEPT !.child = @ + c.calls]
           /\ child' = [state |-> "exited", pid |-> child.pid, fn |-> child.fn,
                        arg |-> child.arg, ret |-> c.ret]
    /\ cbBox' = [cbBox EXCEPT !.state = "reclaimed"]
    /\ UNCHANGED <<usize_size, cpuVars, flagVars, pc, call, combined, sp, stackAlloc,
                   prims, res, result>>

(***************************************************************************)
(* unshare, setns, sched_setaffinity                                       *)
(***************************************************************************)
Unshare ==
    /\ pc = "idle"
    /\ \E flags \in FlagSamples, o \in StatusOutcomes :
        /\ call' = [fn |-> "unshare", flags |-> flags]
        /\ prims' = Append(prims, [name |-> "unshare", flags |-> bits(flags)])
        /\ res' = o
        /\ result' = map_drop(Errno_result(o))
    /\ pc' = "done"
    /\ UNCHANGED <<usize_size, cpuVars, flagVars, combined, sp, stackAlloc, cbBox,
                   cbCalls, child>>

Setns ==
    /\ pc = "idle"
    /\ \E fd \in FdSamples, nstype \in FlagSamples, o \in StatusOutcomes :
        /\ call' = [fn |-> "setns", fd |-> fd, nstype |-> nstype]
        /\ prims' = Append(prims, [name |-> "setns", fd |-> fd, nstype |-> bits(nstype)])
        /\ res' = o
        /\ result' = map_drop(Errno_result(o))
    /\ pc' = "done"
    /\ UNCHANGED <<usize_size, cpuVars, flagVars, combined, sp, stackAlloc, cbBox,
                   cbCalls, child>>

SchedSetaffinity ==
    /\ pc = "idle"
    /\ \E pid \in PidSamples, o \in StatusOutcomes :
        /\ call' = [fn |-> "sched_setaffinity", pid |-> pid, cpuset |-> cpu_set]
        /\ prims' = Append(prims, [name |-> "sched_setaffinity", pid |-> pid.pid,
                                   cpusetsize |-> CpuSetBytes, mask |-> cpu_set])
        /\ res' = o
        /\ result' = map_drop(Errno_result(o))
    /\ pc' = "done"
    /\ UNCHANGED <<usize_size, cpuVars, flagVars, combined, sp, stackAlloc, cbBox,
                   cbCalls, child>>

\* The caller goes on to its next call; a child it started has been waited for.
Return ==
    /\ pc = "done"
    /\ child.state # "running"
    /\ pc' = "idle"
    /\ call' = NoCall
    /\ combined' = {}
    /\ sp' = 0
    /\ stackAlloc' = "none"
    /\ cbBox' = NoBox
    /\ cbCalls' = NoCalls
    /\ prims' = <<>>
    /\ res' = NoRes
    /\ result' = "none"
    /\ child' = NoChild
    /\ UNCHANGED <<usize_size, cpuVars, flagVars>>

InitSys ==
    /\ pc = "idle"
    /\ call = NoCall
    /\ combined = {}
    /\ sp = 0
    /\ stackAlloc = "none"
    /\ cbBox = NoBox
    /\ cbCalls = NoCalls
    /\ prims = <<>>
    /\ res = NoRes
    /\ result = "none"
    /\ child = NoChild

(***************************************************************************)
(* Specifications.                                                         *)
(***************************************************************************)
\* The stack buffers of the calls of Spec, and the grid of them of SpecStack.
StackSamples == {[b |-> 4096, n |-> 4096], [b |-> 4099, n |-> 2]}

StackGrid == {[b |-> b, n |-> n] : b \in 4096..(4096 + MaxBaseOff), n \in 0..MaxStackLen}

Clone == \E cb \in IsizeSamples(usize_size), stack \in StackSamples,
            flags \in FlagSamples, signal \in SignalSamples :
    CloneCall(cb, stack, flags, signal)

\* The test's closure (it returns 0) and its flags.
PayloadResult == Isize(0, 0)
FlagsVM == [bits |-> CLONE_VM]

\* clone as the repository's test calls it, over the grid of stack buffers.
CloneOnStack == \E stack \in StackGrid :
    CloneCall(PayloadResult, stack, FlagsVM, SomeSIGCHLD)

Init ==
    /\ usize_size \in UsizeSizes
    /\ InitCpu
    /\ IdleFlags
    /\ InitSys

Next ==
    \/ Clone
    \/ CloneVecToStack
    \/ CloneBoxIntoRaw
    \/ ClonePrimitive
    \/ CloneResult
    \/ Trampoline
    \/ Unshare
    \/ Setns
    \/ SchedSetaffinity
    \/ Return

\* The system calls: clone, unshare, setns, sched_setaffinity.
Spec == Init /\ [][Next]_vars

NextStack ==
    \/ CloneOnStack
    \/ CloneVecToStack
    \/ CloneBoxIntoRaw
    \/ ClonePrimitive
    \/ CloneResult
    \/ Trampoline
    \/ Return

\* clone over every alignment and length of the stack buffer.
SpecStack == Init /\ [][NextStack]_vars

NextCpu ==
    \/ IsSet
    \/ Set
    \/ Unset

\* A CpuSet from new() on, under its three methods.
SpecCpu == Init /\ [][NextCpu]_vars

InitRaw ==
    /\ usize_size \in UsizeSizes
    /\ InitCpu
    /\ InitFlags
    /\ InitSys

NextFlags ==
    \/ FromBits
    \/ Bits

\* CloneFlags from every raw integer of the bound, and back.
SpecFlags == InitRaw /\ [][NextFlags]_vars


(***************************************************************************)
(* The claims.                                                             *)
(***************************************************************************)
InClone == call.fn = "clone"
PcAfterVecToStack == {"into_raw", "primitive", "result", "done"}
PcAfterPrimitive == {"result", "done"}
ChildStarted == {"running", "exited"}
AfterVecToStack == InClone /\ pc \in PcAfterVecToStack

\* C1: the closure is never invoked in the caller's context and never more than
\* once; a child that has run its entry point has invoked it exactly once, through
\* the trampoline; when the primitive fails no child exists and the closure has
\* not been invoked at all.
C1_ClosureOnceInChildOnly ==
    /\ cbCalls.parent = 0
    /\ cbCalls.child <= 1
    /\ (child.state = "exited" => cbCalls.child = 1 /\ child.fn = "callback")
    /\ (child.state # "exited" => cbCalls.child = 0)
    /\ (InClone /\ pc \in PcAfterPrimitive /\ res.ret = -1 =>
            child.state = "none" /\ cbCalls.child = 0)
    /\ (InClone /\ pc \in PcAfterPrimitive /\ res.ret # -1 =>
            child.state \in ChildStarted)

C1_Witness ==
    /\ InClone /\ pc = "done" /\ result.ok
    /\ child.state = "exited"
    /\ cbCalls.parent = 0
    /\ cbCalls.child = 1

\* C4: a finished call of clone, unshare, setns or sched_setaffinity has issued
\* exactly one call of its own primitive, and has returned Err of the primitive's
\* errno when the primitive returned -1, and otherwise Ok: of the pid equal to the
\* primitive's return value for clone, of () for the others.  No call in progress
\* has issued more than one.
C4_OnePrimitiveCallVerbatim ==
    /\ Len(prims) <= 1
    /\ (pc = "done" =>
          /\ Len(prims) = 1
          /\ prims[1].name = call.fn
          /\ (res.ret = -1 => ~result.ok /\ result.err = res.errno)
          /\ (res.ret # -1 /\ call.fn = "clone" => result.ok /\ result.val.pid = res.ret)
          /\ (res.ret # -1 /\ call.fn # "clone" => result.ok /\ result.val = "unit"))

C4_Witness ==
    /\ pc = "done" /\ InClone
    /\ res.ret = -1
    /\ ~result.ok
    /\ result.err = "ENOMEM"

\* C5: in clone the stack buffer's allocation is forgotten from vec_to_stack on:
\* it is forgotten whenever the primitive has been called, and it is never freed,
\* whether the primitive succeeded or failed.
C5_StackForgottenNeverFreed ==
    /\ stackAlloc # "freed"
    /\ (AfterVecToStack => stackAlloc = "forgotten")
    /\ (InClone /\ Len(prims) > 0 => stackAlloc = "forgotten")

C5_Witness ==
    /\ InClone /\ pc = "done"
    /\ ~result.ok
    /\ stackAlloc = "forgotten"

\* C6: from_bits of a raw integer with bits of the declared constants only
\* succeeds, and bits() of what it made is the raw integer again; from_bits of a
\* raw integer with any other bit is rejected.
Recognized(x) == \A b \in x : \E i \in 1..Len(DeclaredFlags) : b \in DeclaredFlags[i]

C6_Sample == {8, 9, 31}

C7_StackPointerAlignedDown ==
    AfterVecToStack =>
        LET top == call.stack.b + call.stack.n
        IN  /\ sp = top - (top % usize_size)
            /\ sp % usize_size = 0
            /\ sp <= top
            /\ top - sp < usize_size

C7_Witness ==
    /\ AfterVecToStack
    /\ (call.stack.b + call.stack.n) % usize_size = usize_size - 1
    /\ sp = call.stack.b + call.stack.n - (usize_size - 1)

\* C8: the flags argument of the process-creation primitive is flags.bits() OR
\* the exit signal, or flags.bits() itself when there is no signal; the entry
\* point is the trampoline and the user data is the raw pointer of the boxed
\* closure.
C8_PrimitiveArguments ==
    \A i \in 1..Len(prims) :
        prims[i].name = "clone" =>
            /\ prims[i].flags =
                  call.flags.bits \cup (IF call.signal.some THEN call.signal.val ELSE {})
            /\ (~call.signal.some => prims[i].flags = call.flags.bits)
            /\ prims[i].fn = "callback"
            /\ prims[i].arg = cbBox.addr
            /\ cbBox.cb = call.cb
            /\ prims[i].stack = sp

C8_Sample == {0, 4, 8}

C8_Witness ==
    /\ InClone /\ Len(prims) = 1
    /\ call.flags.bits = CLONE_VM
    /\ call.signal.some
    /\ call.signal.val = SomeSIGCHLD.val
    /\ prims[1].flags = C8_Sample

\* C9: the trampoline's return value t is the closure's result r modulo 2^32 read
\* as a signed 32-bit integer: t mod 2^31 is r's low 31 bits, t is negative exactly
\* when bit 31 of r is 1, and an r within the signed 32-bit range comes back as it is.
C9_TrampolineTruncates ==
    child.state = "exited" =>
        LET r == call.cb
            t == child.ret
        IN  /\ (IF t >= 0 THEN t ELSE (t + 2147483647) + 1) = r.lo
            /\ (t < 0 <=> r.hi % 2 = 1)
            /\ (r.hi = 0 => t = r.lo)
            /\ (r.hi = -1 => t = (r.lo - 2147483647) - 1)

C9_Witness ==
    /\ child.state = "exited"
    /\ call.cb.hi = 2
    /\ call.cb.lo = 7
    /\ child.ret = 7

\* C10: for a stack buffer of n >= 1 bytes at b, the pointer vec_to_stack returns
\* lies within b .. b + n.
C10_StackPointerInsideBuffer ==
    AfterVecToStack /\ call.stack.n >= 1 =>
        /\ call.stack.b <= sp
        /\ sp <= call.stack.b + call.stack.n

\* C2: is_set(i) of every index below the capacity is Ok(true) when the last
\* successful set/unset of i was a set, and Ok(false) when it was an unset or
\* there was none; so it does not depend on the calls made for other indices.
C2_IsSetIsLastSetOrUnset ==
    /\ \A i \in 0..(8 * CpuSetBytes - 1) :
          LET r == is_set(usize_size, cpu_set, i).ret
          IN  r.ok /\ r.val = (i \in DOMAIN lastOp /\ lastOp[i] = "set")
    /\ (cpuCall.op = "is_set" /\ cpuCall.field < 8 * CpuSetBytes =>
          cpuCall.ret.ok /\ cpuCall.ret.val = (lastOp[cpuCall.field] = "set"))

C2_Witness ==
    /\ cpuCall.op = "is_set"
    /\ cpuCall.field = size_in_bits(usize_size)
    /\ cpuCall.ret.ok
    /\ cpuCall.ret.val
    /\ lastOp[size_in_bits(usize_size) - 1] = "unset"
    /\ lastOp[0] = "set"

\* C3: a call of is_set, set or unset with an index at or beyond the capacity
\* returns EINVAL, indexes no word of the bit array and leaves the set as it was;
\* a call with an index below the capacity returns no error.
C3_OutOfRangeRejected ==
    cpuCall.op # "new" =>
        IF cpuCall.field >= 8 * CpuSetBytes
        THEN /\ ~cpuCall.ret.ok
             /\ cpuCall.ret.err = "EINVAL"
             /\ cpuCall.touched = {}
             /\ cpu_set = cpuCall.before
        ELSE /\ cpuCall.ret.ok
             /\ cpuCall.touched \subseteq DOMAIN cpu_set

C3_Witness ==
    /\ cpuCall.op = "set"
    /\ cpuCall.field = 8 * CpuSetBytes
    /\ ~cpuCall.ret.ok
    /\ cpuCall.ret.err = "EINVAL"
    /\ lastOp[8 * CpuSetBytes - 1] = "set"


====
